---- MODULE Spec2Model ----
(***************************************************************************)
(* News summarizer: the summary cache (src/src/file_manager.py), the       *)
(* summarization client (src/src/summarizer.py), the article-selection     *)
(* loop of src/main.py and the feed scraper (src/src/scraper.py).          *)
(*                                                                         *)
(* Text is modelled character by character: a string is a sequence of      *)
(* one-character strings, so that substring containment, the slug of a     *)
(* title and the regular expression of get_summary are computed, not       *)
(* assumed.                                                                *)
(***************************************************************************)
EXTENDS Integers, Sequences, FiniteSets, TLC

VARIABLES
    files,      \* the summaries directory: file name -> file content
    today,      \* index into Clock: what datetime.now() currently yields
    last,       \* the last call made and what it returned
    firstSave,  \* link -> path the first save_summary for it created or returned
    written,    \* file name -> the summarized article a save wrote there completely
    faults,     \* number of calls that met an I/O fault so far
    mode,       \* where main() is: "api" (no main loop), "menu", "browsing", "exited", "crashed"
    articles,   \* main(): the article list being browsed
    page,       \* main(): the page shown by display_articles
    apiKeySet   \* ArticleSummarizer.client_initialized

vars == <<files, today, last, firstSave, written, faults, mode, articles, page, apiKeySet>>

----------------------------------------------------------------------------
(* Bounds of the model *)

\* how many calls of one run may meet an I/O fault
MaxFaults == 1

----------------------------------------------------------------------------
(* Strings *)

NL == <<"\n">>

Rep(c, n) == [i \in 1..n |-> c]

MinOf(S) == CHOOSE x \in S : \A y \in S : x <= y

MaxOf(S) == CHOOSE x \in S : \A y \in S : x >= y

Take(s, n) == SubSeq(s, 1, IF n < Len(s) THEN n ELSE Len(s))

IsAt(s, p, i) ==
    i >= 1 /\ i + Len(p) - 1 <= Len(s) /\ \A k \in 1..Len(p) : s[i + k - 1] = p[k]

\* str.find: index of the leftmost occurrence of p in s at or after from, 0 if none
Find(s, p, from) ==
    LET hits == {i \in from..(Len(s) - Len(p) + 1) : IsAt(s, p, i)}
    IN  IF hits = {} THEN 0 ELSE MinOf(hits)

\* p in s
Contains(s, p) == Find(s, p, 1) # 0

StartsWith(s, p) == IsAt(s, p, 1)

EndsWith(s, p) == Len(s) >= Len(p) /\ IsAt(s, p, Len(s) - Len(p) + 1)

UpperCase == <<"A", "B", "C", "D", "E", "F", "G", "H", "I", "J", "K", "L", "M",
               "N", "O", "P", "Q", "R", "S", "T", "U", "V", "W", "X", "Y", "Z">>

LowerCase == <<"a", "b", "c", "d", "e", "f", "g", "h", "i", "j", "k", "l", "m",
               "n", "o", "p", "q", "r", "s", "t", "u", "v", "w", "x", "y", "z">>

Digit == {"0", "1", "2", "3", "4", "5", "6", "7", "8", "9"}

Range(s) == {s[i] : i \in 1..Len(s)}

\* \s of the re module
IsSpace(c) == c \in {" ", "\n", "\t", "\r"}

\* \w of the re module (ASCII part)
IsWord(c) == c \in Range(UpperCase) \cup Range(LowerCase) \cup Digit \cup {"_"}

ToLower(c) ==
    IF c \in Range(UpperCase)
    THEN LowerCase[CHOOSE i \in 1..Len(UpperCase) : UpperCase[i] = c]
    ELSE c

\* str.lower
Lower(s) == [i \in 1..Len(s) |-> ToLower(s[i])]

\* str.strip
Strip(s) ==
    LET n == Len(s)
        lead == CHOOSE k \in 0..n :
                    /\ \A i \in 1..k : IsSpace(s[i])
                    /\ (k = n \/ ~IsSpace(s[k + 1]))
        trail == CHOOSE k \in 0..n :
                    /\ \A i \in (n - k + 1)..n : IsSpace(s[i])
                    /\ (k = n \/ ~IsSpace(s[n - k]))
    IN  IF lead = n THEN <<>> ELSE SubSeq(s, lead + 1, n - trail)

RECURSIVE DropSpaces(_)
DropSpaces(s) ==
    IF s # <<>> /\ IsSpace(Head(s)) THEN DropSpaces(Tail(s)) ELSE s

\* re.sub(r'[\s]+', '_', s)
RECURSIVE SpacesToUnderscore(_)
SpacesToUnderscore(s) ==
    IF s = <<>> THEN <<>>
    ELSE IF IsSpace(Head(s)) THEN <<"_">> \o SpacesToUnderscore(DropSpaces(s))
    ELSE <<Head(s)>> \o SpacesToUnderscore(Tail(s))

KeptInTitle(c) == IsWord(c) \/ IsSpace(c) \/ c = "-"

\* re.sub(r'[^\w\s-]', '', s)
RemoveSpecial(s) == SelectSeq(s, KeptInTitle)

\* F(x), with x evaluated once
Let(x, F(_)) == CHOOSE y \in {F(v) : v \in {x}} : TRUE

RECURSIVE Join(_, _)
\* the first k pieces of a sequence of strings, concatenated
Join(pieces, k) == IF k = 0 THEN <<>> ELSE Join(pieces, k - 1) \o pieces[k]

----------------------------------------------------------------------------
(* Program constants *)

HashLen == 8

TitleSlugLen == 50

SeparatorLen == 50

NumWrites == 10

SummariesDir == <<"s", "u", "m", "m", "a", "r", "i", "e", "s", "/">>

TxtExt == <<".", "t", "x", "t">>

TitleLabel == <<"T", "i", "t", "l", "e", ":", " ">>

SourceLabel == <<"S", "o", "u", "r", "c", "e", ":", " ">>

DateLabel == <<"D", "a", "t", "e", ":", " ">>

UrlLabel == <<"U", "R", "L", ":", " ">>

SummaryMarker == <<"S", "U", "M", "M", "A", "R", "Y", ":", "\n", "\n">>

Separator == Rep("=", SeparatorLen)

Provenance == <<"\n", "S", "u", "m", "m", "a", "r", "i", "z", "e", "d", " ", "u", "s", "i",
                "n", "g", " ", "C", "l", "a", "u", "d", "e", " ", "3", " ", "H", "a", "i",
                "k", "u", " ", "o", "n", " ">>

----------------------------------------------------------------------------
(* Inputs: links, titles, summaries, the clock *)

LinkA == <<"h", "t", "t", "p", "s", ":", "/", "/", "e", "x", ".", "c", "a", "/", "a">>

LinkB == <<"h", "t", "t", "p", "s", ":", "/", "/", "e", "x", ".", "c", "a", "/", "b">>

Links == {LinkA, LinkB}

\* md5("https://ex.ca/a") = a2b2e7087f3ad1b81b0092acd5538751
HashA == <<"a", "2", "b", "2", "e", "7", "0", "8">>

\* md5("https://ex.ca/b") = 9758286dae5994908e93ed04bdb81291
HashB == <<"9", "7", "5", "8", "2", "8", "6", "d">>

\* hashlib.md5(link.encode()).hexdigest()[:8], tabulated for the links of the model
md5_8(link) == Take(IF link = LinkA THEN HashA ELSE HashB, HashLen)

TitleStorm == <<"S", "t", "o", "r", "m", " ", "h", "i", "t", "s", "!">>

TitleDay2 == <<"S", "t", "o", "r", "m", ":", " ", "D", "a", "y", " ", "2">>

\* a headline quoting a reference number that is the short hash of LinkA
TitleRef == <<"R", "e", "f", " ", "a", "2", "b", "2", "e", "7", "0", "8">>

SourceCBC == <<"C", "B", "C">>

FeedDate == <<"2", "0", "2", "6", "-", "1", "1", "-", "0", "1", " ", "0", "8", ":", "0",
              "0", ":", "0", "0">>

DescShort == <<"R", "a", "i", "n", ".">>

Article(title, link) ==
    [title |-> title, description |-> DescShort, link |-> link, date |-> FeedDate,
     source |-> SourceCBC]

ArtA1 == Article(TitleStorm, LinkA)

ArtA2 == Article(TitleDay2, LinkA)

ArtB == Article(TitleRef, LinkB)

Articles == {ArtA1, ArtA2, ArtB}

SumSnow == <<" ", "S", "n", "o", "w", ".", "\n">>

\* a summary that itself holds a blank line followed by a separator line
SumRuled == <<"I", "n", "t", "r", "o">> \o NL \o NL \o Separator \o NL
            \o <<"m", "o", "r", "e">>


\* {**article_data, 'summary': summary}
WithSummary(a, s) ==
    [title |-> a.title, description |-> a.description, link |-> a.link, date |-> a.date,
     source |-> a.source, summary |-> s]

NoArticle == WithSummary(Article(<<>>, <<>>), <<>>)

\* what save_summary is called with: one article under two summaries, the same
\* link under another title, and another link
SummarizedArticles ==
    {WithSummary(ArtA1, SumSnow), WithSummary(ArtA1, SumRuled),
     WithSummary(ArtA2, SumSnow), WithSummary(ArtB, SumSnow)}

\* datetime.now(): the calendar day as %Y%m%d and the timestamp as %Y-%m-%d %H:%M:%S
Clock ==
    << [ymd |-> <<"2", "0", "2", "6", "1", "1", "0", "1">>,
        stamp |-> <<"2", "0", "2", "6", "-", "1", "1", "-", "0", "1", " ", "0", "9", ":",
                    "3", "0", ":", "0", "0">>],
       [ymd |-> <<"2", "0", "2", "6", "1", "1", "0", "2">>,
        stamp |-> <<"2", "0", "2", "6", "-", "1", "1", "-", "0", "2", " ", "0", "9", ":",
                    "3", "0", ":", "0", "0">>] >>

----------------------------------------------------------------------------
(* The file system under the summaries directory *)

EmptyDir == [f \in {} |-> <<>>]

Put(fs, name, content) ==
    [f \in DOMAIN fs \cup {name} |-> IF f = name THEN content ELSE fs[f]]

\* every order os.listdir may return the names in
RECURSIVE Orders(_)
Orders(S) ==
    IF S = {} THEN {<<>>}
    ELSE UNION {{<<x>> \o rest : rest \in Orders(S \ {x})} : x \in S}

\* os.listdir(self.summaries_dir): the names in some order, or an OSError
ListdirOutcomes(fs) ==
    {[ok |-> TRUE, names |-> o] : o \in Orders(DOMAIN fs)}
        \cup {[ok |-> FALSE, names |-> <<>>]}

\* os.path.join(self.summaries_dir, filename)
PathJoin(filename) == SummariesDir \o filename

----------------------------------------------------------------------------
(* FileManager *)

\* FileManager.generate_filename, with day the %Y%m%d of datetime.now()
generate_filename(article, day) ==
    LET url_hash == md5_8(article.link)
        title == Take(Lower(Strip(SpacesToUnderscore(RemoveSpecial(article.title)))),
                      TitleSlugLen)
    IN  day \o <<"_">> \o title \o <<"_">> \o url_hash \o TxtExt

\* the loop of summary_exists over all_files: the first name holding the hash
RECURSIVE FirstMatch(_, _)
FirstMatch(all_files, url_hash) ==
    IF all_files = <<>> THEN <<>>
    ELSE IF Contains(Head(all_files), url_hash) /\ EndsWith(Head(all_files), TxtExt)
         THEN Head(all_files)
         ELSE FirstMatch(Tail(all_files), url_hash)

\* FileManager.summary_exists, after os.listdir returned all_files
summary_exists(all_files, article, day) ==
    Let(FirstMatch(all_files, md5_8(article.link)), LAMBDA found :
        IF found # <<>>
        THEN [exists |-> TRUE, filename |-> found]
        ELSE [exists |-> FALSE, filename |-> generate_filename(article, day)])

\* the ten f.write calls of save_summary, in order
RecordPieces(a, stamp) ==
    << TitleLabel \o a.title \o NL,
       SourceLabel \o a.source \o NL,
       DateLabel \o a.date \o NL,
       UrlLabel \o a.link \o NL,
       NL \o Separator \o NL \o NL,
       SummaryMarker,
       a.summary,
       NL \o NL \o Separator \o NL,
       Provenance,
       stamp >>

\* what open() and the writes of one save do: open_ok = FALSE when open raises,
\* writes_ok < NumWrites when the (writes_ok + 1)-th f.write raises
NoFault == [open_ok |-> TRUE, writes_ok |-> NumWrites]

\* the writes after which a fault is met: after the summary, before its closing
\* separator
WriteFaultPoints == {7}

SaveIO ==
    {[open_ok |-> FALSE, writes_ok |-> 0]}
        \cup {[open_ok |-> TRUE, writes_ok |-> k] : k \in WriteFaultPoints \cup {NumWrites}}

\* save_summary without its existence check: the record is written whether or not a
\* file already matches
save_summary_overwrite(fs, article_with_summary, now, ls, io) ==
    IF ~ls.ok
    THEN [kind |-> "raise", path |-> <<>>, filename |-> <<>>, created |-> FALSE, files |-> fs]
    ELSE
    Let(summary_exists(ls.names, article_with_summary, now.ymd), LAMBDA se :
        IF ~io.open_ok
        THEN [kind |-> "None", path |-> <<>>, filename |-> se.filename,
              created |-> FALSE, files |-> fs]
        ELSE [kind |-> IF io.writes_ok < NumWrites THEN "None" ELSE "path",
              path |-> IF io.writes_ok < NumWrites THEN <<>> ELSE PathJoin(se.filename),
              filename |-> se.filename, created |-> ~se.exists,
              files |-> Put(fs, se.filename,
                            Join(RecordPieces(article_with_summary, now.stamp),
                                 io.writes_ok))])

\* FileManager.save_summary: ls is what os.listdir does, io what open and write do.
\* kind is "path" (a path is returned), "None" or "raise" (an exception leaves the call)
save_summary(fs, article_with_summary, now, ls, io) ==
    IF ~ls.ok
    THEN [kind |-> "raise", path |-> <<>>, filename |-> <<>>, created |-> FALSE, files |-> fs]
    ELSE
    Let(summary_exists(ls.names, article_with_summary, now.ymd), LAMBDA se :
        IF se.exists
        THEN [kind |-> "path", path |-> PathJoin(se.filename), filename |-> se.filename,
              created |-> FALSE, files |-> fs]
        ELSE IF ~io.open_ok
        THEN [kind |-> "None", path |-> <<>>, filename |-> se.filename,
              created |-> FALSE, files |-> fs]
        ELSE IF io.writes_ok < NumWrites
        THEN [kind |-> "None", path |-> <<>>, filename |-> se.filename, created |-> TRUE,
              files |-> Put(fs, se.filename,
                            Join(RecordPieces(article_with_summary, now.stamp),
                                 io.writes_ok))]
        ELSE [kind |-> "path", path |-> PathJoin(se.filename), filename |-> se.filename,
              created |-> TRUE,
              files |-> Put(fs, se.filename,
                            Join(RecordPieces(article_with_summary, now.stamp),
                                 NumWrites))])

\* the pattern r'SUMMARY:\n\n(.*)': the closing separator is not required
SummaryMatch_no_closer(content) ==
    Let(Find(content, SummaryMarker, 1), LAMBDA start :
        IF start = 0
        THEN [matched |-> FALSE, group |-> <<>>]
        ELSE [matched |-> TRUE,
              group |-> SubSeq(content, start + Len(SummaryMarker), Len(content))])

\* re.search(r'SUMMARY:\n\n(.*?)(?:\n\n={50})', content, re.DOTALL): the leftmost
\* marker, then the shortest text up to a blank line and fifty '='
SummaryMatch(content) ==
    Let(Find(content, SummaryMarker, 1), LAMBDA start :
        IF start = 0
        THEN [matched |-> FALSE, group |-> <<>>]
        ELSE Let(Find(content, NL \o NL \o Separator, start + Len(SummaryMarker)),
                 LAMBDA stop :
                     IF stop = 0
                     THEN [matched |-> FALSE, group |-> <<>>]
                     ELSE [matched |-> TRUE,
                           group |-> SubSeq(content, start + Len(SummaryMarker),
                                            stop - 1)]))

\* FileManager.get_summary: ls is what os.listdir does, read_ok whether open/read work
get_summary(fs, article, now, ls, read_ok) ==
    IF ~ls.ok
    THEN [kind |-> "raise", filename |-> <<>>, value |-> NoArticle]
    ELSE
    Let(summary_exists(ls.names, article, now.ymd), LAMBDA se :
        IF ~se.exists
        THEN [kind |-> "None", filename |-> <<>>, value |-> NoArticle]
        ELSE IF ~read_ok
        THEN [kind |-> "None", filename |-> se.filename, value |-> NoArticle]
        ELSE Let(SummaryMatch(fs[se.filename]), LAMBDA summary_match :
                 IF summary_match.matched
                 THEN [kind |-> "article", filename |-> se.filename,
                       value |-> WithSummary(article, Strip(summary_match.group))]
                 ELSE [kind |-> "None", filename |-> se.filename, value |-> NoArticle]))

----------------------------------------------------------------------------
(* The cache used directly: any sequence of summary_exists, save_summary and
   get_summary calls, on any day, with any I/O outcome *)

NoCall ==
    [op |-> "none", article |-> NoArticle, kind |-> "none", fault |-> FALSE,
     exists |-> FALSE, filename |-> <<>>, path |-> <<>>, created |-> FALSE,
     value |-> NoArticle]

\* the outcomes of os.listdir open to a call: it may raise while faults remain
Listdir(fs, may_fault) == {ls \in ListdirOutcomes(fs) : ls.ok \/ may_fault}

\* the outcomes of open and write open to a save whose listing was ls
SaveIOFor(ls, article, may_fault) ==
    IF may_fault /\ ls.ok /\ FirstMatch(ls.names, md5_8(article.link)) = <<>>
    THEN SaveIO
    ELSE {NoFault}

\* the outcomes of open and read open to a get_summary whose listing was ls
ReadIOFor(ls, article, may_fault) ==
    IF may_fault /\ ls.ok /\ FirstMatch(ls.names, md5_8(article.link)) # <<>>
    THEN BOOLEAN
    ELSE {TRUE}

Init ==
    /\ files = EmptyDir
    /\ today = 1
    /\ last = NoCall
    /\ firstSave = [l \in Links |-> <<>>]
    /\ written = EmptyDir
    /\ faults = 0
    /\ mode = "api"
    /\ articles = <<>>
    /\ page = 0
    /\ apiKeySet = FALSE

\* the calendar day changes between two calls
Midnight ==
    /\ today < Len(Clock)
    /\ today' = today + 1
    /\ UNCHANGED <<files, last, firstSave, written, faults, mode, articles, page, apiKeySet>>

SummaryExists(article) ==
    /\ \E ls \in Listdir(files, faults < MaxFaults) :
       \E se \in {summary_exists(ls.names, article, Clock[today].ymd)} :
            /\ last' = [NoCall EXCEPT !.op = "summary_exists",
                                      !.article = WithSummary(article, <<>>),
                                      !.kind = IF ls.ok THEN "tuple" ELSE "raise",
                                      !.fault = ~ls.ok,
                                      !.exists = ls.ok /\ se.exists,
                                      !.filename = IF ls.ok THEN se.filename ELSE <<>>]
            /\ faults' = IF ls.ok THEN faults ELSE faults + 1
    /\ UNCHANGED <<files, today, firstSave, written, mode, articles, page, apiKeySet>>

\* the bookkeeping of a save_summary call that returned r
NoteSave(article_with_summary, r) ==
    LET link == article_with_summary.link
    IN  /\ firstSave' =
              IF firstSave[link] = <<>> /\ (r.kind = "path" \/ r.created)
              THEN [firstSave EXCEPT ![link] = PathJoin(r.filename)]
              ELSE firstSave
        /\ written' =
              IF r.kind = "path" /\ r.created
              THEN Put(written, r.filename, article_with_summary)
              ELSE written

SaveSummary(article_with_summary) ==
    /\ \E ls \in Listdir(files, faults < MaxFaults) :
       \E io \in SaveIOFor(ls, article_with_summary, faults < MaxFaults) :
       \E r \in {save_summary(files, article_with_summary, Clock[today], ls, io)} :
        LET fault == ~ls.ok \/ io # NoFault
        IN  /\ files' = r.files
            /\ last' = [NoCall EXCEPT !.op = "save_summary",
                                      !.article = article_with_summary,
                                      !.kind = r.kind,
                                      !.fault = fault,
                                      !.filename = r.filename,
                                      !.path = r.path,
                                      !.created = r.created]
            /\ faults' = IF fault THEN faults + 1 ELSE faults
            /\ NoteSave(article_with_summary, r)
    /\ UNCHANGED <<today, mode, articles, page, apiKeySet>>

GetSummary(article) ==
    /\ \E ls \in Listdir(files, faults < MaxFaults) :
       \E read_ok \in ReadIOFor(ls, article, faults < MaxFaults) :
       \E r \in {get_summary(files, article, Clock[today], ls, read_ok)} :
        LET fault == ~ls.ok \/ ~read_ok
        IN  /\ last' = [NoCall EXCEPT !.op = "get_summary",
                                      !.article = WithSummary(article, <<>>),
                                      !.kind = r.kind,
                                      !.fault = fault,
                                      !.filename = r.filename,
                                      !.value = r.value]
            /\ faults' = IF fault THEN faults + 1 ELSE faults
    /\ UNCHANGED <<files, today, firstSave, written, mode, articles, page, apiKeySet>>

Next ==
    \/ Midnight
    \/ \E a \in Articles : SummaryExists(a)
    \/ \E a \in SummarizedArticles : SaveSummary(a)
    \/ \E a \in Articles : GetSummary(a)

Spec == Init /\ [][Next]_vars

----------------------------------------------------------------------------
(* ArticleSummarizer *)

MinContentLen == 100

ErrorDetailLen == 200

HttpOk == 200

NoKeySummary ==
    <<"C", "a", "n", "n", "o", "t", " ", "s", "u", "m", "m", "a", "r", "i", "z", "e",
      ":", " ", "C", "l", "a", "u", "d", "e", " ", "A", "P", "I", " ", "k", "e", "y",
      " ", "n", "o", "t", " ", "s", "e", "t", ".">>

ErrGenPrefix ==
    <<"E", "r", "r", "o", "r", " ", "g", "e", "n", "e", "r", "a", "t", "i", "n", "g",
      " ", "s", "u", "m", "m", "a", "r", "y", ":", " ">>

NoContentMsg ==
    <<"N", "o", " ", "c", "o", "n", "t", "e", "n", "t", " ", "i", "n", " ", "r", "e",
      "s", "p", "o", "n", "s", "e">>

ApiFailedMsg ==
    <<"A", "P", "I", " ", "r", "e", "q", "u", "e", "s", "t", " ", "f", "a", "i", "l",
      "e", "d", ":", " ">>

ErrSummarizingMsg ==
    <<"E", "r", "r", "o", "r", " ", "s", "u", "m", "m", "a", "r", "i", "z", "i", "n",
      "g", " ", "a", "r", "t", "i", "c", "l", "e", ":", " ">>

ErrFetchPrefix ==
    <<"E", "r", "r", "o", "r", " ", "f", "e", "t", "c", "h", "i", "n", "g", " ", "a",
      "r", "t", "i", "c", "l", "e", " ", "c", "o", "n", "t", "e", "n", "t", ":", " ">>

DigitChars == <<"0", "1", "2", "3", "4", "5", "6", "7", "8", "9">>

\* str(n) of a natural number
RECURSIVE Str(_)
Str(n) ==
    IF n < 10 THEN <<DigitChars[n + 1]>>
    ELSE Str(n \div 10) \o <<DigitChars[(n % 10) + 1]>>

(* What the network does to one summarize call *)

\* str(e) of the exceptions met
MsgNotFound ==
    <<"4", "0", "4", " ", "C", "l", "i", "e", "n", "t", " ", "E", "r", "r", "o", "r">>

MsgRetries ==
    <<"H", "T", "T", "P", "S", "C", "o", "n", "n", "e", "c", "t", "i", "o", "n", "P",
      "o", "o", "l", "(", "h", "o", "s", "t", "=", "'", "e", "x", ".", "c", "a", "'",
      ",", " ", "p", "o", "r", "t", "=", "4", "4", "3", ")", ":", " ", "M", "a", "x",
      " ", "r", "e", "t", "r", "i", "e", "s", " ", "e", "x", "c", "e", "e", "d", "e",
      "d", " ", "w", "i", "t", "h", " ", "u", "r", "l", ":", " ", "/", "a">>

MsgParser == <<"p", "a", "r", "s", "e", "r", " ", "e", "r", "r", "o", "r">>

MsgTimeout == <<"t", "i", "m", "e", "d", " ", "o", "u", "t">>

MsgKeyText == <<"'", "t", "e", "x", "t", "'">>

MsgNotJson ==
    <<"E", "x", "p", "e", "c", "t", "i", "n", "g", " ", "v", "a", "l", "u", "e", ":",
      " ", "l", "i", "n", "e", " ", "1", " ", "c", "o", "l", "u", "m", "n", " ", "1",
      " ", "(", "c", "h", "a", "r", " ", "0", ")">>

\* the page of the article: what requests.get and the extraction of its text give.
\* "page": the extracted text; "request_exception": a requests.RequestException
\* (raise_for_status included); "exception": any other exception
FetchOutcomes ==
    {[kind |-> "page", text |-> Rep("x", MinContentLen)],
     [kind |-> "page", text |-> Rep("y", MinContentLen - 1)],
     [kind |-> "request_exception", text |-> MsgNotFound],
     [kind |-> "request_exception", text |-> MsgRetries],
     [kind |-> "exception", text |-> MsgParser]}

SumRain == <<"R", "a", "i", "n", " ", "f", "e", "l", "l", ".">>

SumErrors == <<"E", "r", "r", "o", "r", "s", " ", "r", "o", "s", "e", ".">>

\* the texts the model may answer with
ApiTexts == {SumRain, SumErrors}

\* an HTTP response of the API: is_json whether response.json() parses, has_content
\* whether the object has a "content" key, content its blocks, text the raw body
Response(status, is_json, has_content, content, text) ==
    [kind |-> "response", status |-> status, is_json |-> is_json,
     has_content |-> has_content, content |-> content, text |-> text]

BodyError ==
    <<"{", "\"", "t", "y", "p", "e", "\"", ":", "\"", "e", "r", "r", "o", "r", "\"",
      "}">>

\* requests.post: it raises, or answers 200 with one of the bodies, or answers an
\* error status
ApiOutcomes ==
    {[kind |-> "exception", status |-> 0, is_json |-> FALSE, has_content |-> FALSE,
      content |-> <<>>, text |-> MsgTimeout]}
        \cup {Response(HttpOk, TRUE, TRUE, <<[has_text |-> TRUE, text |-> t]>>, <<>>) :
                t \in ApiTexts}
        \cup {Response(HttpOk, TRUE, FALSE, <<>>, <<>>),
              Response(HttpOk, TRUE, TRUE, <<>>, <<>>),
              Response(HttpOk, TRUE, TRUE, <<[has_text |-> FALSE, text |-> <<>>]>>, <<>>),
              Response(HttpOk, FALSE, FALSE, <<>>, <<>>),
              Response(401, TRUE, FALSE, <<>>, BodyError)}

\* ArticleSummarizer.fetch_article_content: the text, or the exception that leaves it
fetch_article_content(url, fetch) ==
    IF fetch.kind = "page" THEN [raised |-> FALSE, text |-> fetch.text]
    ELSE IF fetch.kind = "request_exception"
    THEN [raised |-> FALSE, text |-> ErrFetchPrefix \o fetch.text]
    ELSE [raised |-> TRUE, text |-> fetch.text]

\* what a run of summarize gives: raised with str(e) in msg, or value, the article
\* with its 'summary' field; fetched whether the article page was requested, posts
\* the API requests sent (by header scheme), content the article content put in the
\* prompt
Outcome(article_data, raised, msg, summary, fetched, posts, content) ==
    [raised |-> raised, msg |-> msg,
     value |-> IF raised THEN NoArticle ELSE WithSummary(article_data, summary),
     fetched |-> fetched, posts |-> posts, content |-> content]

\* response.json() then the extraction of content[0]["text"], for a 200 response:
\* "text", "no_content", or "raise" with msg
ReadBody(response) ==
    IF ~response.is_json THEN [kind |-> "raise", text |-> MsgNotJson]
    ELSE IF response.has_content /\ Len(response.content) > 0
    THEN IF response.content[1].has_text
         THEN [kind |-> "text", text |-> response.content[1].text]
         ELSE [kind |-> "raise", text |-> MsgKeyText]
    ELSE [kind |-> "no_content", text |-> <<>>]

\* the content the prompt is built from, taken as the extracted text whatever its
\* length
prompt_content_extracted(article_data, text) == text

\* the content the prompt is built from: the feed description when the extracted
\* text is short
prompt_content(article_data, text) ==
    IF Len(text) < MinContentLen THEN article_data.description ELSE text

\* the else branch of the status test with no alternate request made
alternate_request_skipped(article_data, content, primary, alt) ==
    Outcome(article_data, FALSE, <<>>,
            ErrGenPrefix \o ApiFailedMsg \o Str(primary.status)
                \o <<" ", "-", " ">> \o Take(primary.text, ErrorDetailLen),
            TRUE, <<"x-api-key">>, content)

\* the else branch of the status test: the request with the alternate header, its
\* answer read as the primary one is, and the failure of both
alternate_request(article_data, content, primary, alt) ==
    IF alt.kind = "exception"
    THEN Outcome(article_data, TRUE, alt.text, <<>>, TRUE, <<"x-api-key", "Bearer">>,
                 content)
    ELSE Let(IF alt.status = HttpOk THEN ReadBody(alt)
             ELSE [kind |-> "no_content", text |-> <<>>], LAMBDA body :
             IF body.kind = "raise"
             THEN Outcome(article_data, TRUE, body.text, <<>>, TRUE,
                          <<"x-api-key", "Bearer">>, content)
             ELSE IF body.kind = "text"
             THEN Outcome(article_data, FALSE, <<>>, body.text, TRUE,
                          <<"x-api-key", "Bearer">>, content)
             ELSE Outcome(article_data, FALSE, <<>>,
                          ErrGenPrefix \o ApiFailedMsg \o Str(primary.status)
                              \o <<" ", "-", " ">> \o Take(primary.text, ErrorDetailLen),
                          TRUE, <<"x-api-key", "Bearer">>, content))

\* the body of the try statement of summarize
summarize_body(article_data, fetch, primary, alt) ==
    Let(fetch_article_content(article_data.link, fetch), LAMBDA got :
    IF got.raised THEN Outcome(article_data, TRUE, got.text, <<>>, TRUE, <<>>, <<>>)
    ELSE
    Let(prompt_content(article_data, got.text), LAMBDA content :
    IF primary.kind = "exception"
    THEN Outcome(article_data, TRUE, primary.text, <<>>, TRUE, <<"x-api-key">>, content)
    ELSE IF primary.status = HttpOk
    THEN Let(ReadBody(primary), LAMBDA body :
             IF body.kind = "raise"
             THEN Outcome(article_data, TRUE, body.text, <<>>, TRUE, <<"x-api-key">>,
                          content)
             ELSE IF body.kind = "text"
             THEN Outcome(article_data, FALSE, <<>>, body.text, TRUE, <<"x-api-key">>,
                          content)
             ELSE Outcome(article_data, FALSE, <<>>, ErrGenPrefix \o NoContentMsg, TRUE,
                          <<"x-api-key">>, content))
    ELSE alternate_request(article_data, content, primary, alt)))

\* the try statement without its except clause
summarize_try_no_except(article_data, fetch, primary, alt) ==
    summarize_body(article_data, fetch, primary, alt)

\* the try statement of summarize: except Exception turns str(e) into a summary
summarize_try(article_data, fetch, primary, alt) ==
    Let(summarize_body(article_data, fetch, primary, alt), LAMBDA o :
        IF o.raised
        THEN Outcome(article_data, FALSE, <<>>, ErrGenPrefix \o ErrSummarizingMsg \o o.msg, o.fetched,
                     o.posts, o.content)
        ELSE o)

\* summarize without the check of client_initialized
summarize_unchecked(client_initialized, article_data, fetch, primary, alt) ==
    summarize_try(article_data, fetch, primary, alt)

\* ArticleSummarizer.summarize
summarize(client_initialized, article_data, fetch, primary, alt) ==
    IF ~client_initialized
    THEN Outcome(article_data, FALSE, <<>>, NoKeySummary, FALSE, <<>>, <<>>)
    ELSE summarize_try(article_data, fetch, primary, alt)

----------------------------------------------------------------------------
(* The main loop *)

PerPage == 10

ErrorPrefix == <<"E", "r", "r", "o", "r">>

CannotPrefix ==
    <<"C", "a", "n", "n", "o", "t", " ", "s", "u", "m", "m", "a", "r", "i", "z", "e",
      ":">>

\* eleven articles, one more than a page holds
LongFeed == [i \in 1..(PerPage + 1) |-> IF i % 2 = 1 THEN ArtA1 ELSE ArtB]

\* what scraper.get_feed hands to the loop
FeedResults == {<<>>, LongFeed}

\* ConsoleInterface.display_articles: the number of pages and the articles shown
TotalPages(arts) == MaxOf({1, (Len(arts) + PerPage - 1) \div PerPage})

OnPage(arts, pg) ==
    {arts[i] : i \in (pg * PerPage + 1)..MinOf({pg * PerPage + PerPage, Len(arts)})}

\* the alternate request has an outcome only where the primary one was answered with
\* an error status
AltOutcomes(primary) ==
    IF primary.kind = "response" /\ primary.status # HttpOk THEN ApiOutcomes
    ELSE {primary}

\* the condition under which the loop saves, without its test of 'Cannot summarize:'
is_valid_summary_error_only(article_with_summary) ==
    ~StartsWith(article_with_summary.summary, ErrorPrefix)

\* the condition under which the loop saves the summarized article
is_valid_summary(article_with_summary) ==
    /\ ~StartsWith(article_with_summary.summary, ErrorPrefix)
    /\ ~StartsWith(article_with_summary.summary, CannotPrefix)

NoSave ==
    [kind |-> "none", path |-> <<>>, filename |-> <<>>, created |-> FALSE,
     files |-> EmptyDir]

\* the miss branch with display_summary called only when a file path came back
save_and_display_if_saved(fs, o, now, ls, io) ==
    IF o.raised
    THEN [crashed |-> TRUE, save |-> [NoSave EXCEPT !.files = fs], shown |-> FALSE,
          display |-> NoArticle]
    ELSE IF is_valid_summary(o.value)
    THEN Let(save_summary(fs, o.value, now, ls, io), LAMBDA r :
             [crashed |-> r.kind = "raise", save |-> r, shown |-> r.kind = "path",
              display |-> IF r.kind = "path" THEN o.value ELSE NoArticle])
    ELSE [crashed |-> FALSE, save |-> [NoSave EXCEPT !.files = fs], shown |-> TRUE,
          display |-> o.value]

\* the miss branch of the loop after summarize gave o: the save under the condition,
\* then display_summary; crashed when an exception leaves main
save_and_display(fs, o, now, ls, io) ==
    IF o.raised
    THEN [crashed |-> TRUE, save |-> [NoSave EXCEPT !.files = fs], shown |-> FALSE,
          display |-> NoArticle]
    ELSE IF is_valid_summary(o.value)
    THEN Let(save_summary(fs, o.value, now, ls, io), LAMBDA r :
             [crashed |-> r.kind = "raise", save |-> r, shown |-> r.kind # "raise",
              display |-> IF r.kind # "raise" THEN o.value ELSE NoArticle])
    ELSE [crashed |-> FALSE, save |-> [NoSave EXCEPT !.files = fs], shown |-> TRUE,
          display |-> o.value]

\* the record of the last turn of the loop. got: what get_summary gave; summarized:
\* summarize was called, on the network outcomes fetch (extracted: the text
\* fetch_article_content returns on it), primary and alt, and gave
\* result (raised: an exception left it); saved: what save_summary gave, "none" when
\* it was not called; shown: display_summary was called, with display
NoSelection ==
    [op |-> "none", article |-> NoArticle, got |-> "none", summarized |-> FALSE,
     fetch |-> "none", extracted |-> <<>>, primary |-> "none", alt |-> "none",
     raised |-> FALSE,
     result |-> NoArticle, fetched |-> FALSE, posts |-> <<>>, content |-> <<>>,
     saved |-> "none", fault |-> FALSE, shown |-> FALSE, display |-> NoArticle]

\* the kind of answer an API request got
Answer(api) ==
    IF api.kind = "exception" THEN "exception"
    ELSE IF api.status # HttpOk THEN "status"
    ELSE ReadBody(api).kind

MainInit ==
    /\ files = EmptyDir
    /\ today = 1
    /\ last = NoSelection
    /\ firstSave = [l \in Links |-> <<>>]
    /\ written = EmptyDir
    /\ faults = 0
    /\ mode = "menu"
    /\ articles = <<>>
    /\ page = 0
    /\ apiKeySet \in BOOLEAN

\* a category is chosen in the menu and its feed fetched
ChooseCategory(main_choice) ==
    /\ mode = "menu"
    /\ main_choice \in 0..2
    /\ \E feed \in FeedResults : articles' = feed
    /\ page' = 0
    /\ mode' = "browsing"
    /\ last' = NoSelection
    /\ UNCHANGED <<files, today, firstSave, written, faults, apiKeySet>>

\* Exit is chosen in the menu, and confirmed or not
Exit(confirm_exit) ==
    /\ mode = "menu"
    /\ mode' = IF confirm_exit THEN "exited" ELSE mode
    /\ last' = NoSelection
    /\ UNCHANGED <<files, today, firstSave, written, faults, articles, page, apiKeySet>>

PrevPage ==
    /\ mode = "browsing"
    /\ Len(articles) > 0
    /\ page > 0
    /\ page' = MaxOf({0, page - 1})
    /\ last' = NoSelection
    /\ UNCHANGED <<files, today, firstSave, written, faults, mode, articles, apiKeySet>>

NextPage ==
    /\ mode = "browsing"
    /\ Len(articles) > 0
    /\ page < TotalPages(articles) - 1
    /\ page' = page + 1
    /\ last' = NoSelection
    /\ UNCHANGED <<files, today, firstSave, written, faults, mode, articles, apiKeySet>>

BackToMenu ==
    /\ mode = "browsing"
    /\ mode' = "menu"
    /\ last' = NoSelection
    /\ UNCHANGED <<files, today, firstSave, written, faults, articles, page, apiKeySet>>

\* the turn of the loop on a cache hit, or on an exception out of get_summary
ShowExisting(selected_article, existing_summary, fault) ==
    /\ last' = [NoSelection EXCEPT !.op = "select",
                                   !.article = WithSummary(selected_article, <<>>),
                                   !.got = existing_summary.kind,
                                   !.fault = fault,
                                   !.shown = existing_summary.kind = "article",
                                   !.display = existing_summary.value]
    /\ mode' = IF existing_summary.kind = "raise" THEN "crashed" ELSE mode
    /\ faults' = IF fault THEN faults + 1 ELSE faults
    /\ UNCHANGED <<files, firstSave, written>>

\* the turn of the loop on a cache miss, after a get_summary that met a fault or
\* not; listings are the outcomes of os.listdir open to the save, of which the
\* listing of the get is one
GenerateAndSave(selected_article, got, getFault, listings, listed) ==
    \E fetch \in FetchOutcomes, primary \in ApiOutcomes :
    \E alt \in AltOutcomes(primary) :
    \E o \in {summarize(apiKeySet, selected_article, fetch, primary, alt)} :
    \E saves \in {~o.raised /\ is_valid_summary(o.value)} :
    \E ls \in IF saves THEN listings ELSE {listed} :
    \E io \in IF saves
              THEN SaveIOFor(ls, selected_article,
                             (IF getFault THEN faults + 1 ELSE faults) < MaxFaults)
              ELSE {NoFault} :
    \E t \in {save_and_display(files, o, Clock[today], ls, io)} :
        LET fault == getFault \/ (t.save.kind # "none" /\ (~ls.ok \/ io # NoFault))
        IN  /\ files' = t.save.files
            /\ last' = [NoSelection EXCEPT !.op = "select",
                                           !.article = WithSummary(selected_article, <<>>),
                                           !.got = got,
                                           !.summarized = TRUE,
                                           !.fetch = fetch.kind,
                                           !.extracted =
                                               fetch_article_content(
                                                   selected_article.link, fetch).text,
                                           !.primary = Answer(primary),
                                           !.alt = IF Answer(primary) = "status"
                                                   THEN Answer(alt) ELSE "none",
                                           !.raised = o.raised,
                                           !.result = o.value,
                                           !.fetched = o.fetched,
                                           !.posts = o.posts,
                                           !.content = o.content,
                                           !.saved = t.save.kind,
                                           !.fault = fault,
                                           !.shown = t.shown,
                                           !.display = t.display]
            /\ mode' = IF t.crashed THEN "crashed" ELSE mode
            /\ faults' = IF fault THEN faults + 1 ELSE faults
            /\ IF t.save.kind = "none" THEN UNCHANGED <<firstSave, written>>
               ELSE NoteSave(o.value, t.save)

\* an article of the page is selected and summarized whether or not get_summary gave
\* a cached summary
SelectArticle_cache_ignored(selected_article) ==
    /\ mode = "browsing"
    /\ \E listings \in {Listdir(files, faults < MaxFaults)} :
       \E ls \in listings :
       \E read_ok \in ReadIOFor(ls, selected_article, faults < MaxFaults) :
       \E existing_summary \in
              {get_summary(files, selected_article, Clock[today], ls, read_ok)} :
            IF existing_summary.kind # "raise"
            THEN GenerateAndSave(selected_article, existing_summary.kind,
                                 ~ls.ok \/ ~read_ok,
                                 {l \in listings : l.ok \/ read_ok \/ faults + 1 < MaxFaults},
                                 ls)
            ELSE ShowExisting(selected_article, existing_summary, ~ls.ok \/ ~read_ok)
    /\ UNCHANGED <<today, articles, page, apiKeySet>>

\* an article of the page is selected
SelectArticle(selected_article) ==
    /\ mode = "browsing"
    /\ \E listings \in {Listdir(files, faults < MaxFaults)} :
       \E ls \in listings :
       \E read_ok \in ReadIOFor(ls, selected_article, faults < MaxFaults) :
       \E existing_summary \in
              {get_summary(files, selected_article, Clock[today], ls, read_ok)} :
            IF existing_summary.kind = "None"
            THEN GenerateAndSave(selected_article, "None", ~ls.ok \/ ~read_ok,
                                 {l \in listings : l.ok \/ read_ok \/ faults + 1 < MaxFaults},
                                 ls)
            ELSE ShowExisting(selected_article, existing_summary, ~ls.ok \/ ~read_ok)
    /\ UNCHANGED <<today, articles, page, apiKeySet>>

MainNext ==
    \/ \E main_choice \in 0..2 : ChooseCategory(main_choice)
    \/ \E confirm_exit \in BOOLEAN : Exit(confirm_exit)
    \/ PrevPage
    \/ NextPage
    \/ BackToMenu
    \/ \E a \in OnPage(articles, page) : SelectArticle(a)

MainSpec == MainInit /\ [][MainNext]_vars

----------------------------------------------------------------------------
(* NewsScraper: the text helpers *)

\* None, where the code may hold it in place of a string: a value no text equals
None == <<"None">>

\* not x, for x a string or None
Falsy(x) == x = None \/ x = <<>>

MaxDescLen == 200

Ellipsis == <<".", ".", ".">>

\* BeautifulSoup(description, 'html.parser').get_text(separator=' ', strip=True):
\* the text nodes between the tags, each stripped, the empty ones dropped, joined by
\* one space
get_text(html) ==
    Let({i \in 1..Len(html) : html[i] = "<"}, LAMBDA opens :
    Let({i \in 1..Len(html) : html[i] = ">"}, LAMBDA closes :
    Let({i \in 1..Len(html) :
            ~\E j \in opens : j <= i /\ \A c \in closes : ~(j <= c /\ c < i)},
        LAMBDA text :
    Let({i \in text : (i - 1) \notin text}, LAMBDA starts :
    Let([a \in starts |->
            Strip(SubSeq(html, a, MinOf({e \in text : e >= a /\ (e + 1) \notin text})))],
        LAMBDA node :
    LET RECURSIVE Joined(_)
        Joined(S) ==
            IF S = {} THEN <<>>
            ELSE LET a == MinOf(S)
                     rest == Joined(S \ {a})
                 IN  IF rest = <<>> THEN node[a] ELSE node[a] \o <<" ">> \o rest
    IN  Joined({a \in starts : node[a] # <<>>}))))))

\* NewsScraper._clean_description with no limit on the length
_clean_description_unlimited(description) ==
    IF Falsy(description) THEN <<>> ELSE get_text(description)

\* NewsScraper._clean_description
_clean_description(description) ==
    IF Falsy(description) THEN <<>>
    ELSE Let(get_text(description), LAMBDA text :
             IF Len(text) > MaxDescLen THEN Take(text, MaxDescLen) \o Ellipsis
             ELSE text)

(* datetime.strptime and strftime, on the six formats of _parse_date *)

Letter == Range(UpperCase) \cup Range(LowerCase)

Whitespace == {" ", "\n", "\t", "\r"}

\* the number of characters of s from position i on that belong to Class
RunLen(s, i, Class) ==
    CHOOSE k \in 0..(Len(s) - i + 1) :
        /\ \A j \in i..(i + k - 1) : s[j] \in Class
        /\ i + k > Len(s) \/ s[i + k] \notin Class

DigitVal(c) == CHOOSE d \in 0..9 : DigitChars[d + 1] = c

\* int() of the k digits of s at position i
RECURSIVE NumAt(_, _, _)
NumAt(s, i, k) ==
    IF k = 0 THEN 0 ELSE NumAt(s, i, k - 1) * 10 + DigitVal(s[i + k - 1])

WeekdayAbbr ==
    {<<"m", "o", "n">>, <<"t", "u", "e">>, <<"w", "e", "d">>, <<"t", "h", "u">>,
     <<"f", "r", "i">>, <<"s", "a", "t">>, <<"s", "u", "n">>}

MonthAbbr ==
    << <<"j", "a", "n">>, <<"f", "e", "b">>, <<"m", "a", "r">>, <<"a", "p", "r">>,
       <<"m", "a", "y">>, <<"j", "u", "n">>, <<"j", "u", "l">>, <<"a", "u", "g">>,
       <<"s", "e", "p">>, <<"o", "c", "t">>, <<"n", "o", "v">>, <<"d", "e", "c">> >>

\* the zone names %Z accepts
ZoneNames == {<<"u", "t", "c">>, <<"g", "m", "t">>}

\* %z: Z, or a sign, two digits of hours, an optional colon and two digits of minutes
IsOffset(z) ==
    \/ z = <<"Z">>
    \/ /\ Len(z) \in {5, 6}
       /\ z[1] \in {"+", "-"}
       /\ z[2] \in Digit /\ z[3] \in Digit
       /\ Len(z) = 6 => z[4] = ":"
       /\ z[Len(z) - 1] \in {"0", "1", "2", "3", "4", "5"}
       /\ z[Len(z)] \in Digit

\* the formats tried in order, each a sequence of directives, single characters and
\* " " for a run of whitespace
DateFormats ==
    << <<"%a", ",", " ", "%d", " ", "%b", " ", "%Y", " ", "%H", ":", "%M", ":", "%S",
         " ", "%z">>,
       <<"%a", ",", " ", "%d", " ", "%b", " ", "%Y", " ", "%H", ":", "%M", ":", "%S",
         " ", "%Z">>,
       <<"%Y", "-", "%m", "-", "%d", "T", "%H", ":", "%M", ":", "%S", "%z">>,
       <<"%Y", "-", "%m", "-", "%d", "T", "%H", ":", "%M", ":", "%S", "Z">>,
       <<"%Y", "-", "%m", "-", "%d", " ", "%H", ":", "%M", ":", "%S">>,
       <<"%Y", "-", "%m", "-", "%d">> >>

\* the fields of a datetime that strptime fills, with its defaults
DefaultFields == [Y |-> 1900, m |-> 1, d |-> 1, H |-> 0, M |-> 0, S |-> 0]

\* a numeric directive: one or two digits (four for the year) with a value in lo..hi
NumField(s, i, lens, lo, hi) ==
    Let(RunLen(s, i, Digit), LAMBDA k :
        IF k \in lens /\ NumAt(s, i, k) \in lo..hi
        THEN [ok |-> TRUE, next |-> i + k, val |-> NumAt(s, i, k)]
        ELSE [ok |-> FALSE, next |-> i, val |-> 0])

\* the match of the tokens of fmt from the t-th on against s from position i on
RECURSIVE Scan(_, _, _, _, _)
Scan(s, fmt, t, i, f) ==
    IF t > Len(fmt) THEN [ok |-> i = Len(s) + 1, f |-> f]
    ELSE
    LET tk == fmt[t]
        fail == [ok |-> FALSE, f |-> f]
        num(lens, lo, hi) == NumField(s, i, lens, lo, hi)
    IN  CASE tk = " " ->
               Let(RunLen(s, i, Whitespace), LAMBDA k :
                   IF k >= 1 THEN Scan(s, fmt, t + 1, i + k, f) ELSE fail)
          [] tk = "%Y" ->
               Let(num({4}, 0, 9999), LAMBDA r :
                   IF r.ok THEN Scan(s, fmt, t + 1, r.next, [f EXCEPT !.Y = r.val])
                   ELSE fail)
          [] tk = "%m" ->
               Let(num({1, 2}, 1, 12), LAMBDA r :
                   IF r.ok THEN Scan(s, fmt, t + 1, r.next, [f EXCEPT !.m = r.val])
                   ELSE fail)
          [] tk = "%d" ->
               Let(num({1, 2}, 1, 31), LAMBDA r :
                   IF r.ok THEN Scan(s, fmt, t + 1, r.next, [f EXCEPT !.d = r.val])
                   ELSE fail)
          [] tk = "%H" ->
               Let(num({1, 2}, 0, 23), LAMBDA r :
                   IF r.ok THEN Scan(s, fmt, t + 1, r.next, [f EXCEPT !.H = r.val])
                   ELSE fail)
          [] tk = "%M" ->
               Let(num({1, 2}, 0, 59), LAMBDA r :
                   IF r.ok THEN Scan(s, fmt, t + 1, r.next, [f EXCEPT !.M = r.val])
                   ELSE fail)
          [] tk = "%S" ->
               Let(num({1, 2}, 0, 61), LAMBDA r :
                   IF r.ok THEN Scan(s, fmt, t + 1, r.next, [f EXCEPT !.S = r.val])
                   ELSE fail)
          [] tk = "%a" ->
               Let(RunLen(s, i, Letter), LAMBDA k :
                   IF k = 3 /\ Lower(SubSeq(s, i, i + 2)) \in WeekdayAbbr
                   THEN Scan(s, fmt, t + 1, i + 3, f) ELSE fail)
          [] tk = "%b" ->
               Let(RunLen(s, i, Letter), LAMBDA k :
                   IF k = 3 /\ \E n \in 1..12 : MonthAbbr[n] = Lower(SubSeq(s, i, i + 2))
                   THEN Scan(s, fmt, t + 1, i + 3,
                             [f EXCEPT !.m = CHOOSE n \in 1..12 :
                                                MonthAbbr[n] = Lower(SubSeq(s, i, i + 2))])
                   ELSE fail)
          [] tk = "%z" ->
               Let(RunLen(s, i, Digit \cup {"+", "-", ":", "Z"}), LAMBDA k :
                   IF IsOffset(SubSeq(s, i, i + k - 1))
                   THEN Scan(s, fmt, t + 1, i + k, f) ELSE fail)
          [] tk = "%Z" ->
               Let(RunLen(s, i, Letter), LAMBDA k :
                   IF Lower(SubSeq(s, i, i + k - 1)) \in ZoneNames
                   THEN Scan(s, fmt, t + 1, i + k, f) ELSE fail)
          [] OTHER ->
               IF i <= Len(s) /\ ToLower(s[i]) = ToLower(tk)
               THEN Scan(s, fmt, t + 1, i + 1, f) ELSE fail

IsLeap(y) == y % 4 = 0 /\ (y % 100 # 0 \/ y % 400 = 0)

DaysIn(m, y) ==
    IF m = 2 THEN (IF IsLeap(y) THEN 29 ELSE 28)
    ELSE IF m \in {4, 6, 9, 11} THEN 30 ELSE 31

\* datetime.strptime(date_str, fmt): the datetime, or ok = FALSE for its ValueError
strptime(date_str, fmt) ==
    Let(Scan(date_str, fmt, 1, 1, DefaultFields), LAMBDA r :
        [ok |-> r.ok /\ r.f.Y >= 1 /\ r.f.d <= DaysIn(r.f.m, r.f.Y) /\ r.f.S <= 59,
         f |-> r.f])

Pad2(n) == IF n < 10 THEN <<"0">> \o Str(n) ELSE Str(n)

\* %Y of strftime: glibc prints the year as it is, other C libraries pad it to four
\* digits
Year(y, pad_year) ==
    IF pad_year /\ y < 1000 THEN Rep("0", 4 - Len(Str(y))) \o Str(y) ELSE Str(y)

\* dt.strftime('%Y-%m-%d %H:%M:%S')
strftime(f, pad_year) ==
    Year(f.Y, pad_year) \o <<"-">> \o Pad2(f.m) \o <<"-">> \o Pad2(f.d) \o <<" ">>
        \o Pad2(f.H) \o <<":">> \o Pad2(f.M) \o <<":">> \o Pad2(f.S)

\* the loop over the formats from the k-th on: the first that parses wins, and the
\* string itself is returned when none does
RECURSIVE TryFormats(_, _, _)
TryFormats(date_str, k, pad_year) ==
    IF k > Len(DateFormats) THEN date_str
    ELSE Let(strptime(date_str, DateFormats[k]), LAMBDA r :
             IF r.ok THEN strftime(r.f, pad_year)
             ELSE TryFormats(date_str, k + 1, pad_year))

\* NewsScraper._parse_date; now is what datetime.now() formats to
_parse_date(date_str, now, pad_year) ==
    IF Falsy(date_str) THEN now ELSE TryFormats(date_str, 1, pad_year)

----------------------------------------------------------------------------
(* NewsScraper: dates and descriptions of feeds *)

DateRfcZone == <<"W", "e", "d", ",", " ", "0", "2", " ", "O", "c", "t", " ", "2", "0",
                 "0", "2", " ", "1", "3", ":", "0", "0", ":", "0", "0", " ", "G", "M",
                 "T">>

DateRfcOffset == <<"W", "e", "d", ",", " ", "0", "2", " ", "O", "c", "t", " ", "2",
                   "0", "0", "2", " ", "1", "5", ":", "0", "0", ":", "0", "0", " ",
                   "+", "0", "2", "0", "0">>

DateIsoZ == <<"2", "0", "0", "2", "-", "1", "0", "-", "0", "2", "T", "1", "3", ":",
              "0", "0", ":", "0", "0", "Z">>

DateIsoOffset == <<"2", "0", "0", "2", "-", "1", "0", "-", "0", "2", "T", "1", "3",
                   ":", "0", "0", ":", "0", "0", "+", "0", "2", ":", "0", "0">>

DatePlain == <<"2", "0", "0", "2", "-", "1", "0", "-", "0", "2", " ", "1", "3", ":",
               "0", "0", ":", "0", "0">>

DateOnly == <<"2", "0", "0", "2", "-", "1", "0", "-", "0", "2">>

DateLoose == <<"2", "0", "0", "2", "-", "1", "-", "2", " ", "3", ":", "4", ":", "5">>

DatePadded == <<" ", "2", "0", "0", "2", "-", "1", "0", "-", "0", "2">>

DateEst == <<"W", "e", "d", ",", " ", "0", "2", " ", "O", "c", "t", " ", "2", "0", "0",
             "2", " ", "1", "3", ":", "0", "0", ":", "0", "0", " ", "E", "S", "T">>

DateEarly == <<"0", "9", "9", "9", "-", "0", "1", "-", "0", "1">>

DateNoDay == <<"2", "0", "0", "2", "-", "0", "2", "-", "3", "0">>

DateWords == <<"y", "e", "s", "t", "e", "r", "d", "a", "y">>

DateEarlyFull == <<"0", "9", "9", "9", "-", "0", "1", "-", "0", "1", " ", "0", "0",
                   ":", "0", "0", ":", "0", "0">>

DateMay == <<"2", "0", "0", "2", "-", "0", "5", "-", "1", "2">>

\* what pubDate, updated and published hold in feeds, and what a missing one gives
DateInputs ==
    {None, <<>>, DateRfcZone, DateRfcOffset, DateIsoZ, DateIsoOffset,
     DatePlain, DateOnly, DateLoose, DatePadded, DateEst,
     DateEarly, DateNoDay, DateWords, DateMay,
     DateEarlyFull}

DescHtml == <<"<", "p", ">", "R", "a", "i", "n", " ", "<", "b", ">", "f", "e", "l", "l", "<",
              "/", "b", ">", ".", "<", "/", "p", ">">>

DescBlank == <<" ", " ", " ">>

DescFull == Rep("x", MaxDescLen)

DescOver == Rep("x", MaxDescLen + 1)

DescTaggedFull == <<"<", "p", ">">> \o DescFull \o <<"<", "/", "p", ">">>

DescTaggedOver == <<"<", "p", ">">> \o DescOver \o <<"<", "/", "p", ">">>

DescWords == Rep("a", MaxDescLen - 1) \o <<" ">> \o Rep("b", 50)

\* what description, summary and content hold in feeds
DescInputs ==
    {None, <<>>, DescShort, DescHtml, DescBlank, DescFull, DescOver, DescTaggedFull,
     DescTaggedOver, DescWords}

\* the record of one call of the scraper
----------------------------------------------------------------------------
(* NewsScraper: the feed parser *)

\* an element or attribute that the document does not have
Absent == <<"Absent">>

NoTitle == <<"N", "o", " ", "t", "i", "t", "l", "e">>

RssTag == <<"r", "s", "s">>

AtomTag == <<"{", "a", "}", "f", "e", "e", "d">>

HtmlTag == <<"h", "t", "m", "l">>

\* an <item>: each child is Absent, the empty string for an element without text,
\* or its text
Item(title, description, link, pubDate) ==
    [tag |-> "item", title |-> title, description |-> description, link |-> link,
     pubDate |-> pubDate, summary |-> Absent, content |-> Absent, href |-> Absent,
     updated |-> Absent, published |-> Absent]

\* an <entry>; href is Absent without a <link>, None for a <link> without href
Entry(title, summary, content, href, updated, published) ==
    [tag |-> "entry", title |-> title, description |-> Absent, link |-> Absent,
     pubDate |-> Absent, summary |-> summary, content |-> content, href |-> href,
     updated |-> updated, published |-> published]

\* a payload: whether its encoding declaration names a codec Python knows, whether
\* it is well-formed XML, the tag of its root and its items and entries in document
\* order
Payload(encoding_known, wellformed, root, elements) ==
    [encoding_known |-> encoding_known, wellformed |-> wellformed, root |-> root,
     elements |-> elements]

ItemStorm == Item(TitleStorm, DescHtml, LinkA, DateRfcZone)

ItemRef == Item(TitleRef, DescShort, LinkB, DateIsoZ)

\* RSS 2.0 asks of an item only a title or a description
ItemNoLink == Item(TitleDay2, DescShort, Absent, DateRfcOffset)

ItemBare == Item(<<>>, Absent, <<>>, Absent)

ItemUntitled == Item(Absent, DescShort, LinkB, DatePlain)

EntryStorm == Entry(TitleStorm, DescShort, Absent, LinkA, DateIsoZ, Absent)

EntryContent == Entry(TitleRef, Absent, DescHtml, LinkB, Absent, DateIsoOffset)

EntryBare == Entry(Absent, Absent, Absent, None, Absent, Absent)

RssGood == Payload(TRUE, TRUE, RssTag, <<ItemStorm, ItemRef>>)

RssNoLink == Payload(TRUE, TRUE, RssTag, <<ItemStorm, ItemNoLink, ItemRef>>)

RssBare == Payload(TRUE, TRUE, RssTag, <<ItemBare, ItemRef>>)

RssMalformed == Payload(TRUE, FALSE, RssTag, <<ItemStorm, ItemUntitled>>)

RssForeignCodec == Payload(FALSE, TRUE, RssTag, <<ItemStorm>>)

AtomGood == Payload(TRUE, TRUE, AtomTag, <<EntryStorm, EntryContent>>)

AtomBare == Payload(TRUE, TRUE, AtomTag, <<EntryBare, EntryStorm>>)

AtomMalformed == Payload(TRUE, FALSE, AtomTag, <<EntryContent, EntryBare>>)

\* the payload of no response
NoPayload == Payload(TRUE, TRUE, <<>>, <<>>)

HtmlPage == Payload(TRUE, TRUE, HtmlTag, <<>>)

Garbage == Payload(TRUE, FALSE, HtmlTag, <<>>)

Payloads ==
    {RssGood, RssNoLink, RssBare, RssMalformed, RssForeignCodec, AtomGood, AtomBare,
     AtomMalformed, HtmlPage, Garbage}

\* ET.fromstring(content): the tree, ParseError for a payload that is not
\* well-formed, LookupError for an encoding Python has no codec for
fromstring(content) ==
    IF ~content.encoding_known THEN "LookupError"
    ELSE IF ~content.wellformed THEN "ParseError"
    ELSE "tree"

\* NewsScraper._safe_find_text: '' without the element, and the element's text
\* otherwise, which is None for an element without text
_safe_find_text(element, tag) ==
    IF element[tag] = Absent THEN <<>>
    ELSE IF element[tag] = <<>> THEN None
    ELSE element[tag]

\* tag.text if tag else default, on a BeautifulSoup element: its text is '' for an
\* element without text
TextOr(element, tag, default) ==
    IF element[tag] = Absent THEN default ELSE element[tag]

\* root.findall('.//item'), root.findall('.//{*}entry'), soup.find_all(tag)
FindAll(content, tag) == SelectSeq(content.elements, LAMBDA e : e.tag = tag)

\* the result of _parse_rss: what it raised, if it did, the list it returned, and
\* whether it logged an error
Parsed(raised, parsed, logged) ==
    [raised |-> raised, articles |-> parsed, logged |-> logged]

\* the article of an <item> read with ElementTree
StrictItem(item, source_name, now, pad_year) ==
    [title |-> _safe_find_text(item, "title"),
     description |-> _clean_description(_safe_find_text(item, "description")),
     link |-> _safe_find_text(item, "link"),
     date |-> _parse_date(_safe_find_text(item, "pubDate"), now, pad_year),
     source |-> source_name]

\* the article of an <entry> read with ElementTree
StrictEntry(entry, source_name, now, pad_year) ==
    [title |-> _safe_find_text(entry, "title"),
     description |-> _clean_description(_safe_find_text(entry, "summary")),
     link |-> IF entry.href # Absent THEN entry.href ELSE <<>>,
     date |-> _parse_date(_safe_find_text(entry, "updated"), now, pad_year),
     source |-> source_name]

\* the article of an <item> read with BeautifulSoup
LenientItem(item, source_name, now, pad_year) ==
    [title |-> TextOr(item, "title", NoTitle),
     description |-> _clean_description(TextOr(item, "description", <<>>)),
     link |-> TextOr(item, "link", <<>>),
     date |-> _parse_date(TextOr(item, "pubDate", <<>>), now, pad_year),
     source |-> source_name]

\* the article of an <entry> read with BeautifulSoup
LenientEntry(entry, source_name, now, pad_year) ==
    [title |-> TextOr(entry, "title", NoTitle),
     description |-> _clean_description(
                         TextOr(entry, "summary", TextOr(entry, "content", <<>>))),
     link |-> IF entry.href # Absent THEN entry.href ELSE <<>>,
     date |-> _parse_date(TextOr(entry, "updated", TextOr(entry, "published", <<>>)),
                          now, pad_year),
     source |-> source_name]

Each(elements, F(_)) == [i \in 1..Len(elements) |-> F(elements[i])]

\* NewsScraper._parse_rss; has_lxml says whether BeautifulSoup finds its XML parser
_parse_rss(content, source_name, now, pad_year, has_lxml) ==
    CASE fromstring(content) = "LookupError" -> Parsed("LookupError", <<>>, FALSE)
      [] fromstring(content) = "tree" ->
           IF content.root = RssTag
           THEN Parsed("none",
                       Each(FindAll(content, "item"),
                            LAMBDA e : StrictItem(e, source_name, now, pad_year)),
                       FALSE)
           ELSE IF EndsWith(content.root, <<"f", "e", "e", "d">>)
           THEN Parsed("none",
                       Each(FindAll(content, "entry"),
                            LAMBDA e : StrictEntry(e, source_name, now, pad_year)),
                       FALSE)
           ELSE Parsed("none", <<>>, FALSE)
      [] fromstring(content) = "ParseError" ->
           IF ~has_lxml THEN Parsed("none", <<>>, TRUE)
           ELSE IF FindAll(content, "item") # <<>>
           THEN Parsed("none",
                       Each(FindAll(content, "item"),
                            LAMBDA e : LenientItem(e, source_name, now, pad_year)),
                       FALSE)
           ELSE Parsed("none",
                       Each(FindAll(content, "entry"),
                            LAMBDA e : LenientEntry(e, source_name, now, pad_year)),
                       FALSE)

----------------------------------------------------------------------------
(* NewsScraper: get_feed *)

\* self.sources: the names of the sources of each category, in registry order
Sources ==
    [canada |-> << <<"C", "B", "C", " ", "N", "e", "w", "s", " ", "C", "a", "n", "a",
                       "d", "a">>,
                   <<"C", "T", "V", " ", "N", "e", "w", "s", " ", "C", "a", "n", "a",
                       "d", "a">>,
                   <<"G", "l", "o", "b", "a", "l", " ", "N", "e", "w", "s", " ", "C",
                       "a", "n", "a", "d", "a">> >>,
     us |-> << <<"N", "P", "R", " ", "N", "e", "w", "s">>,
               <<"C", "N", "N", " ", "U", "S">>,
               <<"R", "e", "u", "t", "e", "r", "s", " ", "U", "S">> >>,
     world |-> << <<"B", "B", "C", " ", "W", "o", "r", "l", "d">>,
                  <<"R", "e", "u", "t", "e", "r", "s", " ", "W", "o", "r", "l", "d">>,
                  <<"A", "l", " ", "J", "a", "z", "e", "e", "r", "a">> >>]

\* what requests.get and raise_for_status raise, each a requests.RequestException
RequestExceptions == {"Timeout", "HTTPError"}

\* the outcome of fetching one source: an exception of requests, or a response
\* with a payload
Fetched(kind, content) == [kind |-> kind, content |-> content]

FetchResults ==
    {Fetched(k, NoPayload) : k \in RequestExceptions}
        \cup {Fetched("response", c) : c \in {RssGood, AtomGood, RssForeignCodec}}

\* the loop of get_feed over the sources from the k-th on; an exception of
\* _parse_rss is not a RequestException and ends the call
RECURSIVE FetchFrom(_, _, _, _, _, _, _, _)
FetchFrom(names, responses, k, found, logged, now, pad_year, has_lxml) ==
    IF k > Len(names) THEN Parsed("none", found, logged)
    ELSE IF responses[k].kind \in RequestExceptions
    THEN FetchFrom(names, responses, k + 1, found, TRUE, now, pad_year, has_lxml)
    ELSE Let(_parse_rss(responses[k].content, names[k], now, pad_year, has_lxml),
             LAMBDA feed :
                 IF feed.raised # "none" THEN Parsed(feed.raised, <<>>, logged)
                 ELSE FetchFrom(names, responses, k + 1, found \o feed.articles,
                                logged \/ feed.logged, now, pad_year, has_lxml))

\* NewsScraper.get_feed(category); responses are the outcomes of fetching the
\* sources of the category
get_feed(category, responses, now, pad_year, has_lxml) ==
    IF category \notin DOMAIN Sources THEN Parsed("none", <<>>, TRUE)
    ELSE FetchFrom(Sources[category], responses, 1, <<>>, FALSE, now, pad_year,
                   has_lxml)

----------------------------------------------------------------------------
(* NewsScraper: the calls *)

NoScrape ==
    [op |-> "none", input |-> <<>>, value |-> <<>>, twice |-> <<>>,
     content |-> NoPayload, has_lxml |-> TRUE, raised |-> "none", result |-> <<>>,
     logged |-> FALSE, category |-> "", responses |-> <<>>]

ScraperInit ==
    /\ files = EmptyDir
    /\ today = 1
    /\ last = NoScrape
    /\ firstSave = [l \in Links |-> <<>>]
    /\ written = EmptyDir
    /\ faults = 0
    /\ mode = "scraper"
    /\ articles = <<>>
    /\ page = 1
    /\ apiKeySet = FALSE

\* _parse_date(date_str), and _parse_date of what it returned
ParseDate(date_str) ==
    /\ \E pad_year \in BOOLEAN :
       \E v \in {_parse_date(date_str, Clock[today].stamp, pad_year)} :
            last' = [NoScrape EXCEPT !.op = "_parse_date",
                                     !.input = date_str,
                                     !.value = v,
                                     !.twice = _parse_date(v, Clock[today].stamp, pad_year)]
    /\ UNCHANGED <<files, today, firstSave, written, faults, mode, articles, page, apiKeySet>>

\* _clean_description(description)
CleanDescription(description) ==
    /\ last' = [NoScrape EXCEPT !.op = "_clean_description",
                                !.input = description,
                                !.value = _clean_description(description)]
    /\ UNCHANGED <<files, today, firstSave, written, faults, mode, articles, page, apiKeySet>>

\* the dates among DateInputs that carry a year below 1000
EarlyDates ==
    {d \in DateInputs \ {None, <<>>} :
        \E k \in 1..Len(DateFormats) :
            strptime(d, DateFormats[k]).ok /\ strptime(d, DateFormats[k]).f.Y < 1000}

\* the padding of %Y is a choice of the platform that shows only where a payload
\* carries a year below 1000
PadOutcomes(contents) ==
    IF \E c \in contents : \E i \in 1..Len(c.elements) :
           {c.elements[i].pubDate, c.elements[i].updated, c.elements[i].published}
               \cap EarlyDates # {}
    THEN BOOLEAN ELSE {FALSE}

\* BeautifulSoup looks for its XML parser only for a payload that ElementTree
\* rejected with ParseError
LxmlOutcomes(contents) ==
    IF \E c \in contents : fromstring(c) = "ParseError" THEN BOOLEAN ELSE {TRUE}

\* _parse_rss(content, source_name)
ParseRss(content) ==
    /\ \E pad_year \in PadOutcomes({content}), has_lxml \in LxmlOutcomes({content}) :
       \E r \in {_parse_rss(content, SourceCBC, Clock[today].stamp, pad_year, has_lxml)} :
            last' = [NoScrape EXCEPT !.op = "_parse_rss",
                                     !.content = content,
                                     !.has_lxml = has_lxml,
                                     !.raised = r.raised,
                                     !.result = r.articles,
                                     !.logged = r.logged]
    /\ UNCHANGED <<files, today, firstSave, written, faults, mode, articles, page, apiKeySet>>

\* what the menu passes to get_feed, and a category that is not registered
Categories == {"canada", "sports"}

\* get_feed(category)
GetFeed(category) ==
    /\ \E responses \in (IF category \in DOMAIN Sources
                         THEN [1..Len(Sources[category]) -> FetchResults]
                         ELSE {<<>>}) :
       \E pad_year \in PadOutcomes({responses[k].content : k \in 1..Len(responses)}),
          has_lxml \in LxmlOutcomes({responses[k].content : k \in 1..Len(responses)}) :
       \E r \in {get_feed(category, responses, Clock[today].stamp, pad_year, has_lxml)} :
            last' = [NoScrape EXCEPT !.op = "get_feed",
                                     !.category = category,
                                     !.responses = responses,
                                     !.has_lxml = has_lxml,
                                     !.raised = r.raised,
                                     !.result = r.articles,
                                     !.logged = r.logged]
    /\ UNCHANGED <<files, today, firstSave, written, faults, mode, articles, page, apiKeySet>>

ScraperNext ==
    \/ \E date_str \in DateInputs : ParseDate(date_str)
    \/ \E description \in DescInputs : CleanDescription(description)
    \/ \E content \in Payloads : ParseRss(content)
    \/ \E category \in Categories : GetFeed(category)

ScraperSpec == ScraperInit /\ [][ScraperNext]_vars

----------------------------------------------------------------------------
(* Two save_summary calls on one summaries directory, from two runs of the
   program: no lock is taken, so the steps of the calls interleave freely *)

Procs == {1, 2}

\* a call not yet made. pc: "idle", "called", "checked" (summary_exists found no
\* file), "opened" (open(filepath, 'w') created or truncated the file) or
\* "returned", with path what was returned
IdleCall ==
    [pc |-> "idle", article |-> NoArticle, exists |-> FALSE, filename |-> <<>>,
     path |-> <<>>]

NoRace == [op |-> "race", calls |-> [p \in Procs |-> IdleCall]]

RaceInit ==
    /\ files = EmptyDir
    /\ today = 1
    /\ last = NoRace
    /\ firstSave = [l \in Links |-> <<>>]
    /\ written = EmptyDir
    /\ faults = 0
    /\ mode = "race"
    /\ articles = <<>>
    /\ page = 1
    /\ apiKeySet = FALSE

\* what a file holds after data is written at its start over what it held: a
\* file opened with 'w' is truncated at open, not at the write
WriteAtStart(old, data) ==
    IF Len(old) > Len(data) THEN data \o SubSeq(old, Len(data) + 1, Len(old)) ELSE data

\* save_summary(article_with_summary) is called by run p
Call(p, article_with_summary) ==
    /\ last.calls[p].pc = "idle"
    /\ last' = [last EXCEPT !.calls[p].pc = "called",
                            !.calls[p].article = article_with_summary]
    /\ UNCHANGED <<files, today, firstSave, written, faults, mode, articles, page, apiKeySet>>

\* the existence check of run p: os.listdir and the loop of summary_exists; a match
\* makes the call return the path of the file found
Check(p) ==
    /\ last.calls[p].pc = "called"
    /\ \E ls \in Listdir(files, FALSE) :
       \E se \in {summary_exists(ls.names, last.calls[p].article, Clock[today].ymd)} :
            last' = [last EXCEPT !.calls[p].pc = IF se.exists THEN "returned"
                                                 ELSE "checked",
                                 !.calls[p].exists = se.exists,
                                 !.calls[p].filename = se.filename,
                                 !.calls[p].path = IF se.exists THEN PathJoin(se.filename)
                                                   ELSE <<>>]
    /\ UNCHANGED <<files, today, firstSave, written, faults, mode, articles, page, apiKeySet>>

\* open(filepath, 'w') of run p: the file is created, or emptied if it is there
Open(p) ==
    /\ last.calls[p].pc = "checked"
    /\ files' = Put(files, last.calls[p].filename, <<>>)
    /\ last' = [last EXCEPT !.calls[p].pc = "opened"]
    /\ UNCHANGED <<today, firstSave, written, faults, mode, articles, page, apiKeySet>>

\* the ten f.write calls of run p, which fill the buffer of the file object, and
\* the end of the with block, which writes the buffer at the start of the file;
\* then the path is returned
WriteAll(p) ==
    /\ last.calls[p].pc = "opened"
    /\ files' = Put(files, last.calls[p].filename,
                    WriteAtStart(files[last.calls[p].filename],
                                 Join(RecordPieces(last.calls[p].article,
                                                   Clock[today].stamp), NumWrites)))
    /\ last' = [last EXCEPT !.calls[p].pc = "returned",
                            !.calls[p].path = PathJoin(last.calls[p].filename)]
    /\ UNCHANGED <<today, firstSave, written, faults, mode, articles, page, apiKeySet>>

RaceNext ==
    \/ Midnight
    \/ \E p \in Procs : \E a \in SummarizedArticles : Call(p, a)
    \/ \E p \in Procs : Check(p)
    \/ \E p \in Procs : Open(p)
    \/ \E p \in Procs : WriteAll(p)

RaceSpec == RaceInit /\ [][RaceNext]_vars

----------------------------------------------------------------------------
(* Properties of the cache *)

\* the {8-hex-char-link-hash} part of a record name {date}_{slug}_{hash}.txt
HashPortion(filename) ==
    IF Len(filename) >= HashLen + Len(TxtExt)
    THEN SubSeq(filename, Len(filename) - Len(TxtExt) - HashLen + 1,
                Len(filename) - Len(TxtExt))
    ELSE <<>>

\* the records whose name carries the short hash of link as its hash part
RecordsOf(link) == {f \in DOMAIN files : HashPortion(f) = md5_8(link)}

\* the names the lookup of summary_exists accepts for link
Matching(link) ==
    {f \in DOMAIN files : Contains(f, md5_8(link)) /\ EndsWith(f, TxtExt)}

Closer == NL \o NL \o Separator

\* content holds the SUMMARY: marker and, after it, a blank line and a separator
Marked(content) ==
    \E i \in 1..Len(content) :
        /\ IsAt(content, SummaryMarker, i)
        /\ \E j \in (i + Len(SummaryMarker))..Len(content) : IsAt(content, Closer, j)

\* summary is the stripped text between a SUMMARY: marker of content and a closing
\* separator after it
IsBodyOf(summary, content) ==
    \E i \in 1..Len(content) :
        /\ IsAt(content, SummaryMarker, i)
        /\ \E j \in (i + Len(SummaryMarker))..Len(content) :
              /\ IsAt(content, Closer, j)
              /\ summary = Strip(SubSeq(content, i + Len(SummaryMarker), j - 1))

\* C1 (as claimed): in a run without I/O fault, a save_summary returns the path the first
\* save for that link created or returned, and leaves exactly one record of the link
C1_IdempotentSave ==
    (last.op = "save_summary" /\ faults = 0)
        => /\ last.kind = "path"
           /\ last.path = firstSave[last.article.link]
           /\ Cardinality(RecordsOf(last.article.link)) = 1

\* C2 (as claimed): in a run without I/O fault, get_summary, on a record a save for the same link wrote completely,
\* returns the saved summary up to surrounding whitespace
C2_RoundTrip ==
    (/\ last.op = "get_summary"
     /\ faults = 0
     /\ last.filename \in DOMAIN written
     /\ written[last.filename].link = last.article.link)
        => /\ last.kind = "article"
           /\ last.value.summary = Strip(written[last.filename].summary)

\* C3: no call removes or changes an existing record, and summary_exists and
\* get_summary leave the directory as it is
C3_WriteOnce ==
    [][/\ \A f \in DOMAIN files : f \in DOMAIN files' /\ files'[f] = files[f]
       /\ (last'.op \in {"summary_exists", "get_summary"} => files' = files)]_vars

\* a save for a link whose record exists already, with another summary than the record's
C3_Witness ==
    /\ last.op = "save_summary"
    /\ last.kind = "path"
    /\ ~last.created
    /\ last.filename \in DOMAIN written
    /\ written[last.filename].summary # last.article.summary
    /\ files[last.filename] =
          Join(RecordPieces(written[last.filename], Clock[1].stamp), NumWrites)

\* C4 (as claimed): in a run without I/O fault, a lookup reports a match exactly when some record carries the
\* link's short hash as its hash part, and the record it reports is such a record
C4_HashIsSoleKey ==
    (last.op \in {"summary_exists", "get_summary"} /\ faults = 0)
        => LET reported == IF last.op = "summary_exists"
                           THEN last.exists
                           ELSE last.filename # <<>>
           IN  /\ reported <=> RecordsOf(last.article.link) # {}
               /\ reported => last.filename \in RecordsOf(last.article.link)

\* C8 (as claimed): a save_summary that meets an I/O fault returns None
C8_SaveReturnsNoneOnFault ==
    (last.op = "save_summary" /\ last.fault) => last.kind = "None"

\* C10: get_summary returns None when no name matches the link's hash and when the
\* matching record lacks the marked summary; the article it returns carries the text
\* between the markers of the matching record
C10_AbsentUnlessMarked ==
    last.op = "get_summary"
        => /\ (Matching(last.article.link) = {} /\ last.kind # "raise")
                  => last.kind = "None"
           /\ (last.filename # <<>> /\ ~Marked(files[last.filename]))
                  => last.kind = "None"
           /\ last.kind = "article"
                  => /\ last.filename \in Matching(last.article.link)
                     /\ IsBodyOf(last.value.summary, files[last.filename])

\* get_summary found a record that a failed save left with the marker and the summary
\* but no closing separator, and returned None
C10_Witness ==
    /\ last.op = "get_summary"
    /\ ~last.fault
    /\ last.kind = "None"
    /\ last.filename # <<>>
    /\ Contains(files[last.filename], SummaryMarker \o SumSnow)
    /\ ~Marked(files[last.filename])

\* C23: interleaved saves are harmless: when two save_summary calls for one link,
\* under the same or different titles, summaries and calendar days, have both made
\* their existence check before either wrote, the cache ends with exactly one
\* record carrying the link's hash, and that record holds one of the two summaries
\* intact
C23_InterleavedSavesHarmless ==
    (/\ last.op = "race"
     /\ \A p \in Procs : last.calls[p].pc = "returned" /\ ~last.calls[p].exists
     /\ last.calls[1].article.link = last.calls[2].article.link)
        => /\ Cardinality(RecordsOf(last.calls[1].article.link)) = 1
           /\ \A f \in RecordsOf(last.calls[1].article.link) :
                  \E p \in Procs :
                      IsBodyOf(Strip(last.calls[p].article.summary), files[f])

----------------------------------------------------------------------------
(* Properties of the main loop *)

\* the two error sentinels a summary may begin with
GenSentinel == Take(ErrGenPrefix, Len(ErrGenPrefix) - 1)

IsSentinel(summary) == StartsWith(summary, GenSentinel) \/ StartsWith(summary, CannotPrefix)

\* the network let the call succeed: the page fetch did not raise, and the primary
\* request, or the alternate one after an error status, was answered 200 with a text
NetSuccess ==
    /\ apiKeySet
    /\ last.fetch # "exception"
    /\ \/ last.primary = "text"
       \/ last.primary = "status" /\ last.alt = "text"

\* C5: no cache record holds a summary beginning with "Error generating summary:" or
\* "Cannot summarize:", and a selection whose summarization gave such a sentinel
\* passes the summarized article unchanged to display_summary.
C5_SentinelsShownNotCached ==
    /\ \A f \in DOMAIN files :
            /\ ~Contains(files[f], SummaryMarker \o GenSentinel)
            /\ ~Contains(files[f], SummaryMarker \o CannotPrefix)
    /\ (last.op = "select" /\ last.summarized /\ ~last.raised
            /\ IsSentinel(last.result.summary))
          => (last.shown /\ last.display = last.result /\ last.saved = "none")

C5_Witness ==
    /\ last.op = "select"
    /\ last.summarized
    /\ StartsWith(last.result.summary, GenSentinel)
    /\ last.shown
    /\ last.display = last.result
    /\ files # EmptyDir

\* C6: summarize never raises: whatever the page fetch and the API requests do, it
\* returns the article with a 'summary' field, and unless the network let the call
\* succeed that summary begins with "Error generating summary: " or is the
\* missing-credential sentinel.
C6_SummarizeNeverRaises ==
    (last.op = "select" /\ last.summarized)
        => /\ ~last.raised
           /\ last.result = WithSummary(last.article, last.result.summary)
           /\ ~NetSuccess => \/ StartsWith(last.result.summary, ErrGenPrefix)
                             \/ last.result.summary = NoKeySummary

C6_Witness ==
    /\ last.op = "select"
    /\ last.summarized
    /\ apiKeySet
    /\ last.primary = "status"
    /\ last.alt = "raise"
    /\ last.result.summary = ErrGenPrefix \o ErrSummarizingMsg \o MsgKeyText

\* C7: without a credential, summarize returns the article with the summary
\* "Cannot summarize: Claude API key not set." and makes no network call: neither the
\* page fetch nor an API request.
C7_NoKeyNoNetwork ==
    (last.op = "select" /\ last.summarized /\ ~apiKeySet)
        => /\ last.result = WithSummary(last.article, NoKeySummary)
           /\ ~last.fetched
           /\ last.posts = <<>>

C7_Witness ==
    /\ last.op = "select"
    /\ last.summarized
    /\ ~apiKeySet
    /\ last.fetch = "page"
    /\ last.primary = "text"
    /\ last.result.summary = NoKeySummary

\* C9: when save_summary returns None for a freshly summarized article, the loop
\* still calls display_summary with that summarized article and goes on browsing.
C9_SaveFailureStillShown ==
    (last.op = "select" /\ last.saved = "None")
        => /\ last.shown
           /\ last.display = last.result
           /\ mode = "browsing"

C9_Witness ==
    /\ last.op = "select"
    /\ last.saved = "None"
    /\ last.fault
    /\ last.result.summary = SumRain
    /\ last.display = last.result
    /\ mode = "browsing"

\* C17: in one summarize call the alternate-scheme request is sent exactly when the
\* primary-scheme request was answered with a status other than 200, at most two
\* requests are sent, and an exception on either request ends the call with an error
\* summary and no further request.
C17_SingleAuthFallback ==
    (last.op = "select" /\ last.summarized)
        => LET sentPrimary == Len(last.posts) >= 1
               sentAlt == Len(last.posts) >= 2
           IN  /\ Len(last.posts) <= 2
               /\ sentPrimary => last.posts[1] = "x-api-key"
               /\ sentAlt => last.posts[2] = "Bearer"
               /\ sentAlt <=> (sentPrimary /\ last.primary = "status")
               /\ (sentPrimary /\ last.primary = "exception")
                     => StartsWith(last.result.summary, ErrGenPrefix)
               /\ (sentAlt /\ last.alt = "exception")
                     => StartsWith(last.result.summary, ErrGenPrefix)

C17_Witness ==
    /\ last.op = "select"
    /\ last.summarized
    /\ last.primary = "status"
    /\ last.alt = "exception"
    /\ last.posts = <<"x-api-key", "Bearer">>
    /\ last.result.summary = ErrGenPrefix \o ErrSummarizingMsg \o MsgTimeout

\* C18 (as claimed): when fetch_article_content returns a string beginning with
\* "Error fetching article content:", summarize does not put that string into the
\* prompt as the article content, whatever its length.
C18_FetchErrorNotContent ==
    (/\ last.op = "select"
     /\ last.summarized
     /\ last.posts # <<>>
     /\ StartsWith(last.extracted, Take(ErrFetchPrefix, Len(ErrFetchPrefix) - 1)))
        => ~Contains(last.content, last.extracted)

\* C19: a selection calls get_summary first; when it gives a cached summary the loop
\* displays it with no page fetch, no API request and no save, and summarize and
\* save_summary are reached only after get_summary gave None.
C19_CacheBeforeWork ==
    last.op = "select"
        => /\ last.got = "article"
                => /\ last.shown
                   /\ last.display.link = last.article.link
                   /\ ~last.summarized
                   /\ ~last.fetched
                   /\ last.posts = <<>>
                   /\ last.saved = "none"
           /\ (last.summarized \/ last.saved # "none") => last.got = "None"

C19_Witness ==
    /\ last.op = "select"
    /\ apiKeySet
    /\ last.got = "article"
    /\ last.shown
    /\ last.display = WithSummary(last.article, SumRain)
    /\ ~last.summarized

\* C20: when the extracted content has fewer than 100 characters the prompt is built
\* from the feed description, and when it has 100 or more the extracted content is
\* used unchanged.
C20_ShortContentSubstitution ==
    (last.op = "select" /\ last.summarized /\ last.posts # <<>>)
        => /\ Len(last.extracted) < MinContentLen
                => last.content = last.article.description
           /\ Len(last.extracted) >= MinContentLen => last.content = last.extracted

C20_Witness ==
    /\ last.op = "select"
    /\ last.summarized
    /\ last.posts # <<>>
    /\ last.fetch = "page"
    /\ Len(last.extracted) = MinContentLen - 1
    /\ last.content = DescShort

\* C21: every successful summary is persisted: whenever summarize returns a summary
\* that begins with neither "Error generating summary:" nor "Cannot summarize:",
\* save_summary is called for it, whatever text the summary begins with
C21_SuccessfulSummaryPersisted ==
    (last.op = "select" /\ last.summarized /\ ~last.raised
        /\ ~IsSentinel(last.result.summary))
        => last.saved # "none"

\* C22: a summarized link is served from the cache afterwards: once a selection of
\* an article gave a summary that is no sentinel and save_summary returned a
\* location for it, a later selection of an article with the same link, here the
\* next turn of the loop and one that meets no I/O fault, gets that summary from
\* get_summary and sends no API request, whatever else the cache holds
C22_ServedFromCacheAfterwards ==
    [][(/\ last.op = "select"
        /\ last.summarized
        /\ ~last.raised
        /\ ~IsSentinel(last.result.summary)
        /\ last.saved = "path"
        /\ last'.op = "select"
        /\ last'.article.link = last.article.link
        /\ ~last'.fault)
           => /\ last'.got = "article"
              /\ last'.display.summary = last.result.summary
              /\ ~last'.summarized
              /\ last'.posts = <<>>]_vars

----------------------------------------------------------------------------
(* Properties of the scraper *)

\* YYYY-MM-DD HH:MM:SS: digits separated by two hyphens, a space and two colons
IsNormalForm(d) ==
    /\ Len(d) = 19
    /\ d[5] = "-" /\ d[8] = "-" /\ d[11] = " " /\ d[14] = ":" /\ d[17] = ":"
    /\ \A i \in (1..19) \ {5, 8, 11, 14, 17} : d[i] \in Digit

\* d matches one of the six formats of _parse_date
MatchesFormat(d) ==
    ~Falsy(d) /\ \E k \in 1..Len(DateFormats) : strptime(d, DateFormats[k]).ok

\* C15: date normalisation is idempotent: _parse_date applied to what it returned
\* for a string matching one of the six formats returns the same string again, and
\* in particular a string already of the form YYYY-MM-DD HH:MM:SS is returned
\* unchanged
C15_ParseDateIdempotent ==
    last.op = "_parse_date"
        => /\ MatchesFormat(last.input) => last.twice = last.value
           /\ IsNormalForm(last.input) => last.value = last.input

\* C16: a description whose text without the HTML is longer than 200 characters
\* comes back as its first 200 characters followed by "...", 203 characters in
\* all; a text of 200 characters or fewer comes back whole, with no ellipsis added
C16_DescriptionTruncation ==
    last.op = "_clean_description"
        => LET text == IF Falsy(last.input) THEN <<>> ELSE get_text(last.input)
           IN  IF Len(text) > MaxDescLen
               THEN /\ Len(last.value) = MaxDescLen + 3
                    /\ last.value = Take(text, MaxDescLen) \o Ellipsis
               ELSE last.value = text

C16_Witness ==
    /\ last.op = "_clean_description"
    /\ last.input = DescTaggedOver
    /\ Len(last.value) = MaxDescLen + 3
    /\ last.value = DescFull \o Ellipsis

\* the items or entries that _parse_rss reads from a payload it can parse
ElementsRead(content) ==
    IF content.wellformed
    THEN IF content.root = RssTag THEN FindAll(content, "item")
         ELSE IF EndsWith(content.root, <<"f", "e", "e", "d">>)
         THEN FindAll(content, "entry")
         ELSE <<>>
    ELSE IF FindAll(content, "item") # <<>> THEN FindAll(content, "item")
         ELSE FindAll(content, "entry")

\* an element or attribute that is absent or has no text
Missing(x) == x \in {Absent, None, <<>>}

\* C12: the feed parser never raises: for every payload _parse_rss returns a list;
\* a payload that strict XML parsing rejects is read by the lenient parser; and on
\* total parse failure, when neither parser yields items or the root is neither RSS
\* nor Atom, the list is empty and the cause is logged
C12_ParserNeverRaises ==
    last.op = "_parse_rss"
        => /\ last.raised = "none"
           /\ (~last.content.wellformed /\ last.has_lxml)
                  => Len(last.result) = Len(ElementsRead(last.content))
           /\ ElementsRead(last.content) = <<>>
                  => (last.result = <<>> /\ last.logged)

\* C13: an item or entry whose title, link, description or date is absent or empty
\* still yields one article, on the strict and the lenient path, in RSS and in
\* Atom; a missing title, link or description is the empty string in it and a
\* missing date is the current timestamp; and the other items are still returned
C13_MissingFieldPlaceholders ==
    (last.op = "_parse_rss" /\ last.raised = "none"
        /\ (last.content.wellformed \/ last.has_lxml))
        => /\ Len(last.result) = Len(ElementsRead(last.content))
           /\ \A i \in 1..Len(last.result) :
                  LET e == ElementsRead(last.content)[i]
                      a == last.result[i]
                  IN  /\ Missing(e.title) => a.title = <<>>
                      /\ (Missing(e.link) /\ Missing(e.href)) => a.link = <<>>
                      /\ (Missing(e.description) /\ Missing(e.summary)
                             /\ Missing(e.content)) => a.description = <<>>
                      /\ (Missing(e.pubDate) /\ Missing(e.updated)
                             /\ Missing(e.published)) => a.date = Clock[today].stamp

\* RSS 2.0: well-formed XML in a known encoding with the root rss, whose items
\* each have a title or a description
ValidRss20(content) ==
    /\ content.encoding_known
    /\ content.wellformed
    /\ content.root = RssTag
    /\ \A i \in 1..Len(content.elements) :
           /\ content.elements[i].tag = "item"
           /\ ~Missing(content.elements[i].title)
                  \/ ~Missing(content.elements[i].description)

\* C14: for every valid RSS 2.0 payload _parse_rss returns exactly one article per
\* item, in document order, and every article has a non-empty link
C14_OneArticlePerItemWithLink ==
    (last.op = "_parse_rss" /\ ValidRss20(last.content))
        => /\ last.raised = "none"
           /\ Len(last.result) = Len(last.content.elements)
           /\ \A i \in 1..Len(last.result) :
                  /\ ~Missing(last.content.elements[i].title)
                         => last.result[i].title = last.content.elements[i].title
                  /\ ~Missing(last.result[i].link)

\* the source and link of the articles that the sources from the k-th on deliver
RECURSIVE Delivered(_, _, _)
Delivered(names, responses, k) ==
    IF k > Len(names) THEN <<>>
    ELSE (IF responses[k].kind \in RequestExceptions THEN <<>>
          ELSE Each(ElementsRead(responses[k].content),
                    LAMBDA e : <<names[k], IF e.tag = "item" THEN e.link ELSE e.href>>))
             \o Delivered(names, responses, k + 1)

\* C11: for a valid category, whichever of its sources fail with a network error,
\* a timeout or an HTTP error status, get_feed does not raise and returns the
\* articles of every remaining source, concatenated in registry order with each
\* source's articles in feed order; if all sources fail it returns the empty list
C11_PartialFailuresSwallowed ==
    (last.op = "get_feed" /\ last.category \in DOMAIN Sources)
        => /\ last.raised = "none"
           /\ Each(last.result, LAMBDA a : <<a.source, a.link>>)
                  = Delivered(Sources[last.category], last.responses, 1)
           /\ (\A k \in 1..Len(last.responses) :
                   last.responses[k].kind \in RequestExceptions) => last.result = <<>>

====
